---------------------------- MODULE Spec2Model ----------------------------
(***************************************************************************)
(* A model of indexes.py: the declarative document schema (MetaClass),    *)
(* the attribute semantics of DocumentModel instances, and the Index      *)
(* facade over the remote search index (get_range, put, delete, purge).   *)
(*                                                                         *)
(* Python values are written as strings: "None" is None, "True"/"False"   *)
(* the booleans, "'a'" a str, "1" an int.  Document ids are the strings   *)
(* IdNames[1..MaxId], ordered by the remote index as listed there.        *)
(***************************************************************************)
EXTENDS Integers, Sequences, FiniteSets, TLC

VARIABLES
    classes,     \* class name -> [bases, own, meta]: the classes MetaClass built
    objs,        \* instance handle -> [cls, dict]: DocumentModel instances
    assigned,    \* history: handle -> attribute -> last value handed to setattr
    lastRead,    \* the last attribute read: [obj, name, val]
    index,       \* the Index facade object: [made, name, handle]
    given,       \* history: the name the last Index(...) call was given
    remote,      \* the remote index: document id -> wire fields
    ret,         \* outcome of the last facade call: [op, args, exc, val]
    calls,       \* remote calls made by the last facade call
    pc,          \* purge(): "IDLE", "FETCHING", "DELETING", "DONE", "FAILED"
    docs,        \* purge()'s local variable docs
    plog,        \* remote calls of purge() since its last fetch, that fetch included
    hist         \* history of the running / last purge(): [mutated, cursor, late, refetched]

vars == <<classes, objs, assigned, lastRead, index, given, remote, ret, calls,
          pc, docs, plog, hist>>

-----------------------------------------------------------------------------
(* Bounds *)

MaxClasses == 3     \* Document subclasses declared by the application
MaxObjs    == 2     \* DocumentModel instances alive at once
MaxId      == 3     \* document ids IdNames[1..MaxId]
PageLimit  == 2     \* page size of the remote index's range listing
MaxNameLen == 3     \* length of an index name

-----------------------------------------------------------------------------
(* Generic helpers *)

EmptyDict == [n \in {} |-> "None"]

\* dict.update: f.update(g)
DictUpdate(f, g) ==
    [n \in (DOMAIN f) \cup (DOMAIN g) |-> IF n \in DOMAIN g THEN g[n] ELSE f[n]]

\* list.reverse()
Reverse(s) == [i \in 1..Len(s) |-> s[Len(s) + 1 - i]]

-----------------------------------------------------------------------------
(* Schema registry: MetaClass.__new__ *)

FieldKinds == {"TextField", "IntegerField", "BooleanField"}
AttrNames  == {"f", "g"}
ClassOrder == <<"A", "B", "C", "D", "E">>

\* issubclass(b, a) over the classes built so far
RECURSIVE IsSubclass(_, _, _)
IsSubclass(cls, b, a) ==
    IF b = a THEN TRUE
    ELSE IF b \notin DOMAIN cls THEN FALSE
    ELSE \E i \in 1..Len(cls[b].bases) : IsSubclass(cls, cls[b].bases[i], a)

\* for p in parents: fields.update(p._meta.fields)
RECURSIVE UpdateFromParents(_, _, _)
UpdateFromParents(cls, fields, parents) ==
    IF parents = <<>> THEN fields
    ELSE LET p == Head(parents)
             parent_fields == IF p \in DOMAIN cls THEN cls[p].meta ELSE EmptyDict
         IN  UpdateFromParents(cls,
                 IF parent_fields # EmptyDict THEN DictUpdate(fields, parent_fields)
                 ELSE fields,
                 Tail(parents))

\* Parents without the parents.reverse() of MetaClass.__new__
ParentsInOrder(cls, bases) ==
    IF "DocumentModel" \notin DOMAIN cls THEN <<>>
    ELSE SelectSeq(bases, LAMBDA b : IsSubclass(cls, b, "DocumentModel"))

\* parents = [b for b in bases if issubclass(b, DocumentModel)]; parents.reverse()
\* While DocumentModel itself is being defined the name is unbound: NameError,
\* caught, no parents.
Parents(cls, bases) ==
    IF "DocumentModel" \notin DOMAIN cls THEN <<>>
    ELSE Reverse(SelectSeq(bases, LAMBDA b : IsSubclass(cls, b, "DocumentModel")))

\* The Field-valued entries of the class body, each a Field instance of its own
OwnFields(name, dct) ==
    [n \in {m \in DOMAIN dct : dct[m] \in FieldKinds} |->
        [owner |-> name, name |-> n, kind |-> dct[n]]]

\* new_cls._meta.fields
MetaNew(cls, name, bases, dct) ==
    DictUpdate(UpdateFromParents(cls, EmptyDict, Parents(cls, bases)),
               OwnFields(name, dct))

ClassRecord(cls, name, bases, dct) ==
    [bases |-> bases,
     own   |-> {m \in DOMAIN dct : dct[m] \in FieldKinds},
     meta  |-> MetaNew(cls, name, bases, dct)]

\* class DocumentModel(object): __metaclass__ = MetaClass
BaseClasses ==
    [c \in {"DocumentModel"} |-> ClassRecord(EmptyDict, "DocumentModel", <<"object">>, EmptyDict)]

UserClasses(cls) == (DOMAIN cls) \ {"DocumentModel"}

\* Base lists type.__new__ accepts: one Document class, a plain mixin before a
\* Document class, or two distinct Document classes of which the first is no
\* ancestor of the second (no consistent MRO otherwise).
BaseLists(cls) ==
    LET B == DOMAIN cls
    IN  {<<a>> : a \in B} \cup {<<"Mixin", a>> : a \in B} \cup
        {bs \in {<<a, b>> : a \in B, b \in B} :
            bs[1] # bs[2] /\ ~IsSubclass(cls, bs[2], bs[1])}

\* Class bodies: each attribute name absent, a plain attribute, or a Field
ClassBodies ==
    UNION {[S -> {"TextField", "plain"}] : S \in SUBSET AttrNames}

\* class <name>(<bases>): <dct>
DefineClass(bases, dct) ==
    /\ Cardinality(UserClasses(classes)) < MaxClasses
    /\ LET name == ClassOrder[Cardinality(UserClasses(classes)) + 1]
       IN  classes' = [c \in (DOMAIN classes) \cup {name} |->
                          IF c = name THEN ClassRecord(classes, name, bases, dct)
                          ELSE classes[c]]
    /\ UNCHANGED <<objs, assigned, lastRead, index, given, remote, ret, calls,
                   pc, docs, plog, hist>>

-----------------------------------------------------------------------------
(* Fields: the conversions of fields.py, as section 4.1 of the specification *)
(* gives them.                                                                *)

\* Field.to_search_value: app value -> wire value.  Text and numbers pass
\* through, a boolean becomes an atom tag, None stays None.
ToSearchValue(kind, v) ==
    IF v = "None" THEN "None"
    ELSE IF kind = "BooleanField" THEN (IF v = "True" THEN "'1'" ELSE "'0'")
    ELSE v

\* Field.to_python: wire value -> app value
ToPython(kind, w) ==
    IF w = "None" THEN "None"
    ELSE IF kind = "BooleanField" THEN (IF w = "'1'" THEN "True" ELSE "False")
    ELSE w

\* The app-level values a field of each kind accepts
AppValues(kind) ==
    IF kind = "BooleanField" THEN {"None", "True", "False"}
    ELSE IF kind = "IntegerField" THEN {"None", "1"}
    ELSE {"None", "'a'"}

-----------------------------------------------------------------------------
(* Document instances: DocumentModel *)

\* class Thing(DocumentModel): title = TextField(); flag = BooleanField()
ThingBody ==
    [n \in {"title", "flag"} |-> IF n = "title" THEN "TextField" ELSE "BooleanField"]

AppClasses ==
    [c \in {"DocumentModel", "Thing"} |->
        IF c = "Thing"
        THEN ClassRecord(BaseClasses, "Thing", <<"DocumentModel">>, ThingBody)
        ELSE BaseClasses[c]]

\* self._meta.fields
Fields(cls, c) == cls[c].meta

\* __setattr__ without the to_search_value conversion
SetAttrRaw(cls, c, dict, name, val) ==
    [n \in (DOMAIN dict) \cup {name} |-> IF n = name THEN val ELSE dict[n]]

\* DocumentModel.__setattr__: the instance __dict__ after setattr(self, name, val)
SetAttrOp(cls, c, dict, name, val) ==
    LET stored == IF name \in DOMAIN Fields(cls, c)
                  THEN ToSearchValue(Fields(cls, c)[name].kind, val)
                  ELSE val
    IN  [n \in (DOMAIN dict) \cup {name} |-> IF n = name THEN stored ELSE dict[n]]

\* DocumentModel.__getattribute__: what reading self.<name> gives
GetAttrOp(cls, c, dict, name) ==
    IF name \notin DOMAIN dict THEN "<AttributeError>"
    ELSE IF name \in DOMAIN Fields(cls, c)
         THEN ToPython(Fields(cls, c)[name].kind, dict[name])
         ELSE dict[name]

\* kwargs.get(name, default)
KwGet(kwargs, name, default) ==
    IF name \in DOMAIN kwargs THEN kwargs[name] ELSE default

\* unicode(kwargs.get('doc_id', '')).encode('utf-8') or None
DocIdOf(kwargs) ==
    LET v == KwGet(kwargs, "doc_id", "''")
    IN  IF v = "''" THEN "None"
        ELSE IF v = "None" THEN "'None'"
        ELSE v

\* for name in fields: setattr(self, name, kwargs.pop(name, None))
RECURSIVE InitFields(_, _, _, _, _)
InitFields(cls, c, dict, kwargs, todo) ==
    IF todo = {} THEN dict
    ELSE LET name == CHOOSE n \in todo : TRUE
         IN  InitFields(cls, c,
                        SetAttrOp(cls, c, dict, name, KwGet(kwargs, name, "None")),
                        kwargs, todo \ {name})

\* DocumentModel.__init__: the __dict__ of the fresh instance
DocInit(cls, c, kwargs) ==
    SetAttrOp(cls, c,
              InitFields(cls, c, EmptyDict, kwargs, DOMAIN Fields(cls, c)),
              "doc_id", DocIdOf(kwargs))

\* The values setattr was called with during __init__
InitAssigned(cls, c, kwargs) ==
    [n \in (DOMAIN Fields(cls, c)) \cup {"doc_id"} |->
        IF n = "doc_id" THEN DocIdOf(kwargs) ELSE KwGet(kwargs, n, "None")]

NoRead == [obj |-> 0, name |-> "", val |-> ""]

\* Keyword arguments of a constructor call
DocKwargs ==
    UNION {[S -> {"None", "'a'", "True", "False", "''"}] : S \in SUBSET {"title", "flag", "doc_id"}}

KwargsOk(cls, c, kwargs) ==
    \A n \in DOMAIN kwargs :
        IF n \in DOMAIN Fields(cls, c) THEN kwargs[n] \in AppValues(Fields(cls, c)[n].kind)
        ELSE kwargs[n] \in {"'a'", "''"}

\* d = Thing(**kwargs)
NewDocument(c, kwargs) ==
    /\ Len(objs) < MaxObjs
    /\ KwargsOk(classes, c, kwargs)
    /\ objs' = Append(objs, [cls |-> c, dict |-> DocInit(classes, c, kwargs)])
    /\ assigned' = Append(assigned, InitAssigned(classes, c, kwargs))
    /\ lastRead' = NoRead
    /\ UNCHANGED <<classes, index, given, remote, ret, calls, pc, docs, plog, hist>>

InstanceAttrs == {"title", "flag", "doc_id", "note"}

\* d.<name> = val
SetAttr(h, name, val) ==
    /\ h \in 1..Len(objs)
    /\ IF name \in DOMAIN Fields(classes, objs[h].cls)
       THEN val \in AppValues(Fields(classes, objs[h].cls)[name].kind)
       ELSE val = "'a'"
    /\ objs' = [objs EXCEPT ![h].dict = SetAttrOp(classes, objs[h].cls, @, name, val)]
    /\ assigned' = [assigned EXCEPT ![h] =
                       [n \in (DOMAIN @) \cup {name} |-> IF n = name THEN val ELSE @[n]]]
    /\ lastRead' = NoRead
    /\ UNCHANGED <<classes, index, given, remote, ret, calls, pc, docs, plog, hist>>

\* d.<name>
GetAttr(h, name) ==
    /\ h \in 1..Len(objs)
    /\ lastRead' = [obj |-> h, name |-> name,
                    val |-> GetAttrOp(classes, objs[h].cls, objs[h].dict, name)]
    /\ UNCHANGED <<classes, objs, assigned, index, given, remote, ret, calls,
                   pc, docs, plog, hist>>

-----------------------------------------------------------------------------
(* The remote index (google.appengine.api.search.Index): an external       *)
(* collaborator, modelled by its interface in section 6 of the            *)
(* specification: a range listing ordered by id with a start cursor and a *)
(* page limit, a batch put and a batch delete.                            *)

IdNames == <<"'a'", "'b'", "'c'", "'d'", "'e'">>
Ids     == {IdNames[i] : i \in 1..MaxId}
Rank(id) == CHOOSE i \in 1..Len(IdNames) : IdNames[i] = id

\* The ids of S in the index's order
RECURSIVE SortedIds(_)
SortedIds(S) ==
    IF S = {} THEN <<>>
    ELSE LET m == CHOOSE x \in S : \A y \in S : Rank(x) <= Rank(y)
         IN  <<m>> \o SortedIds(S \ {m})

Take(s, n) == SubSeq(s, 1, IF Len(s) < n THEN Len(s) ELSE n)

AbsentId == [kind |-> "absent", doc_id |-> "None"]
StrId(id) == [kind |-> "str", doc_id |-> id]

\* One page: the first PageLimit documents among `S`, id-only when asked
Page(rem, S, kwargs) ==
    LET ids == Take(SortedIds(S), PageLimit)
    IN  [i \in 1..Len(ids) |->
            [doc_id |-> ids[i],
             fields |-> IF kwargs.ids_only = "True" THEN EmptyDict ELSE rem[ids[i]]]]

\* index.get_range(**kwargs): the responses the remote index can give.
\* With a document id as start_id the page starts at it, or just after it when
\* include_start_object is False.  A start_id that is no document id is outside
\* the interface: the call fails, or the value is coerced to some key unrelated
\* to the ids, so the listing starts at an arbitrary position.
RemoteGetRange(rem, kwargs) ==
    LET sid == kwargs.start_id
        D   == DOMAIN rem
    IN  IF sid.kind = "absent"
        THEN {[exc |-> "None", docs |-> Page(rem, D, kwargs)]}
        ELSE IF sid.kind = "str"
        THEN {[exc |-> "None",
               docs |-> Page(rem,
                   {x \in D : IF kwargs.include_start_object = "False"
                              THEN Rank(x) > Rank(sid.doc_id)
                              ELSE Rank(x) >= Rank(sid.doc_id)},
                   kwargs)]}
        ELSE {[exc |-> "TypeError", docs |-> <<>>]} \cup
             {[exc |-> "None", docs |-> Page(rem, {x \in D : Rank(x) > p}, kwargs)] :
                 p \in 0..MaxId}

\* The ids the remote index may report for a batch: a document's own id, or
\* for a document without one an unused id of the index's choosing
PutIds(rem, batch) ==
    {ids \in [1..Len(batch) -> Ids] :
        \A i \in 1..Len(batch) :
            IF batch[i].doc_id # "None" THEN ids[i] = batch[i].doc_id
            ELSE /\ ids[i] \notin DOMAIN rem
                 /\ \A j \in 1..Len(batch) :
                        j # i => ids[j] # ids[i] /\ batch[j].doc_id # ids[i]}

\* index.put(search_docs): the index after the batch is stored in order
RECURSIVE RemotePut(_, _, _)
RemotePut(rem, batch, ids) ==
    IF batch = <<>> THEN rem
    ELSE RemotePut([x \in (DOMAIN rem) \cup {ids[1]} |->
                       IF x = ids[1] THEN batch[1].fields ELSE rem[x]],
                   Tail(batch), Tail(ids))

\* index.delete(doc_ids)
RemoteDelete(rem, ids) ==
    [x \in (DOMAIN rem) \ {ids[i] : i \in 1..Len(ids)} |-> rem[x]]

-----------------------------------------------------------------------------
(* The Index facade *)

ValidChars == {"a", "!", " "}
NoneName == [none |-> TRUE, chars |-> <<>>]
Names ==
    {NoneName} \cup
    {[none |-> FALSE, chars |-> cs] :
        cs \in UNION {[1..n -> ValidChars] : n \in 0..MaxNameLen}}

\* The asserts with "or" in place of "and" in the second
NameAcceptedEither(name) ==
    /\ ~name.none /\ Len(name.chars) > 0
    /\ \/ ~(name.chars[1] = "!")
       \/ \A i \in 1..Len(name.chars) : name.chars[i] # " "

\* The two assert statements of Index.__init__
NameAccepted(name) ==
    /\ ~name.none /\ Len(name.chars) > 0
    /\ ~(name.chars[1] = "!") /\ (\A i \in 1..Len(name.chars) : name.chars[i] # " ")

NoIndex == [made |-> FALSE, name |-> <<>>, handle |-> <<>>]

\* Index.__init__: the object, or the AssertionError
IndexInit(name) ==
    IF NameAccepted(name)
    THEN [exc |-> "None", obj |-> [made |-> TRUE, name |-> name.chars, handle |-> name.chars]]
    ELSE [exc |-> "AssertionError", obj |-> NoIndex]

\* Index.FIELD_MAP
FIELD_MAP(kind) ==
    CASE kind = "TextField"    -> "search_api.TextField"
      [] kind = "IntegerField" -> "search_api.NumberField"
      [] kind = "FloatField"   -> "search_api.NumberField"
      [] kind = "DateField"    -> "search_api.DateField"
      [] kind = "BooleanField" -> "search_api.AtomField"

\* getattr(d, n, None)
GetAttrDefault(cls, d, n) ==
    LET v == GetAttrOp(cls, d.cls, d.dict, n)
    IN  IF v = "<AttributeError>" THEN "None" ELSE v

\* get_fields without the to_search_value conversion
GetFieldsRaw(cls, d) ==
    [n \in DOMAIN Fields(cls, d.cls) |->
        [type  |-> FIELD_MAP(Fields(cls, d.cls)[n].kind),
         name  |-> n,
         value |-> GetAttrDefault(cls, d, n)]]

\* get_fields(d) of Index.put
GetFields(cls, d) ==
    [n \in DOMAIN Fields(cls, d.cls) |->
        [type  |-> FIELD_MAP(Fields(cls, d.cls)[n].kind),
         name  |-> n,
         value |-> ToSearchValue(Fields(cls, d.cls)[n].kind, GetAttrDefault(cls, d, n))]]

\* try: len(documents) except TypeError: documents = [documents]
AsList(documents) ==
    IF documents.isList THEN documents.items ELSE <<documents.item>>

\* search_docs of Index.put
SearchDocs(cls, documents) ==
    LET ds == AsList(documents)
    IN  [i \in 1..Len(ds) |->
            [doc_id |-> GetAttrOp(cls, ds[i].cls, ds[i].dict, "doc_id"),
             fields |-> GetFields(cls, ds[i])]]

\* The remote calls of Index.put: one put of the whole batch
PutCalls(cls, documents) ==
    <<[op |-> "put", batch |-> SearchDocs(cls, documents)]>>

\* The caller's documents once Index.put has returned: put assigns nothing
PutLeaves(cls, documents) == documents

\* return self._index.put(search_docs)
PutReturn(result) == result

\* construct_document(document_class, doc) of query.py, as section 4.4 of the
\* specification gives it: a fresh instance with the wire fields written onto
\* its attributes.  Without a class there is nothing to instantiate.
RECURSIVE WriteFields(_, _, _, _, _)
WriteFields(cls, c, dict, fields, todo) ==
    IF todo = {} THEN dict
    ELSE LET n == CHOOSE m \in todo : TRUE
         IN  WriteFields(cls, c, SetAttrOp(cls, c, dict, n, fields[n].value),
                         fields, todo \ {n})

ConstructDocument(cls, c, doc) ==
    IF c = "None" THEN [exc |-> "TypeError", obj |-> [cls |-> "None", dict |-> EmptyDict]]
    ELSE [exc |-> "None",
          obj |-> [cls |-> c,
                   dict |-> WriteFields(cls, c,
                                DocInit(cls, c, [n \in {"doc_id"} |-> doc.doc_id]),
                                doc.fields, DOMAIN doc.fields)]]

\* Index.get_range(document_class, **kwargs) given the remote index's response:
\* the exception or the returned list, and the remote calls made
GetRangeOp(cls, document_class, kwargs, resp) ==
    LET ids_only == IF kwargs.ids_only = "absent" THEN "None" ELSE kwargs.ids_only
        call == <<[op |-> "get_range", kwargs |-> kwargs]>>
    IN  IF ids_only # "True" /\ document_class # "None"
        THEN [exc |-> "ValueError", val |-> <<>>, calls |-> <<>>]
        ELSE IF resp.exc # "None"
        THEN [exc |-> resp.exc, val |-> <<>>, calls |-> call]
        ELSE IF ids_only = "True"
        THEN [exc |-> "None",
              val |-> [i \in 1..Len(resp.docs) |->
                          [type |-> "RangeDocument", doc_id |-> resp.docs[i].doc_id]],
              calls |-> call]
        ELSE IF \E i \in 1..Len(resp.docs) :
                    ConstructDocument(cls, document_class, resp.docs[i]).exc # "None"
        THEN [exc |-> "TypeError", val |-> <<>>, calls |-> call]
        ELSE [exc |-> "None",
              val |-> [i \in 1..Len(resp.docs) |->
                          ConstructDocument(cls, document_class, resp.docs[i]).obj],
              calls |-> call]

-----------------------------------------------------------------------------
(* Facade calls *)

NoRet  == [op |-> "none", exc |-> "None", val |-> <<>>, args |-> <<>>, after |-> <<>>]
NoHist == [mutated |-> FALSE, cursor |-> "None", late |-> {}, refetched |-> {}]

Running == pc \in {"FETCHING", "DELETING"}

\* A facade call starts while no purge() is running; what the last purge()
\* left behind is forgotten
ForgetPurge ==
    /\ pc' = "IDLE" /\ docs' = <<>> /\ plog' = <<>> /\ hist' = NoHist

\* Index(name)
NewIndex(name) ==
    /\ ~index.made
    /\ index' = IndexInit(name).obj
    /\ given' = name
    /\ ret' = [op |-> "Index", exc |-> IndexInit(name).exc, val |-> <<>>,
               args |-> name, after |-> name]
    /\ calls' = <<>>
    /\ UNCHANGED <<classes, objs, assigned, lastRead, remote, pc, docs, plog, hist>>

RangeKwargs ==
    [ids_only : {"absent", "True", "False"},
     start_id : {AbsentId} \cup {StrId(id) : id \in Ids},
     include_start_object : {"absent", "False"}]

\* index.get_range(document_class, **kwargs)
GetRange(document_class, kwargs) ==
    /\ index.made /\ ~Running
    /\ \E resp \in RemoteGetRange(remote, kwargs) :
          LET r == GetRangeOp(classes, document_class, kwargs, resp)
          IN  /\ ret' = [op |-> "get_range", exc |-> r.exc, val |-> r.val,
                         args |-> [document_class |-> document_class, kwargs |-> kwargs],
                         after |-> <<>>]
              /\ calls' = r.calls
    /\ ForgetPurge
    /\ UNCHANGED <<classes, objs, assigned, lastRead, index, given, remote>>

\* The documents handed to put: instances of Thing as their constructor leaves them
PutKwargs ==
    {kw \in UNION {[S -> {"'a'", "True"}] : S \in SUBSET {"title", "flag", "doc_id"}} :
        /\ "title" \in DOMAIN kw /\ kw["title"] = "'a'"
        /\ "flag" \in DOMAIN kw => kw["flag"] = "True"
        /\ "doc_id" \in DOMAIN kw => kw["doc_id"] = "'a'"}

PutDocs == {[cls |-> "Thing", dict |-> DocInit(AppClasses, "Thing", kw)] : kw \in PutKwargs}

PutInputs ==
    {[isList |-> FALSE, item |-> d] : d \in PutDocs} \cup
    {[isList |-> TRUE, items |-> ds] :
        ds \in {<<>>} \cup {<<d>> : d \in PutDocs} \cup {<<d, e>> : d \in PutDocs, e \in PutDocs}}

\* One document with an id of its own, as the second caller and the set-up put them
IdDocs ==
    {[cls |-> "Thing",
      dict |-> DocInit(AppClasses, "Thing", [n \in {"doc_id"} |-> id])] : id \in Ids}

SinglePuts == {[isList |-> FALSE, item |-> d] : d \in IdDocs}

PlainRanges == {kw \in RangeKwargs : kw.start_id = AbsentId /\ kw.include_start_object = "absent"}

\* index.put(documents)
Put(documents) ==
    /\ index.made /\ ~Running
    /\ LET cs == PutCalls(classes, documents)
       IN  \E ids \in PutIds(remote, cs[1].batch) :
              /\ remote' = RemotePut(remote, cs[1].batch, ids)
              /\ calls' = [i \in 1..Len(cs) |->
                              [op |-> cs[i].op, batch |-> cs[i].batch, result |-> ids]]
              /\ ret' = [op |-> "put", exc |-> "None", val |-> PutReturn(ids),
                         args |-> documents, after |-> PutLeaves(classes, documents)]
    /\ ForgetPurge
    /\ UNCHANGED <<classes, objs, assigned, lastRead, index, given>>

IdLists == {SortedIds(S) : S \in SUBSET Ids}

\* The remote calls of Index.delete: a straight proxy
DeleteCalls(doc_ids) == <<[op |-> "delete", ids |-> doc_ids]>>

\* index.delete(doc_ids)
Delete(doc_ids) ==
    /\ index.made /\ ~Running
    /\ remote' = RemoteDelete(remote, DeleteCalls(doc_ids)[1].ids)
    /\ calls' = DeleteCalls(doc_ids)
    /\ ret' = [op |-> "delete", exc |-> "None", val |-> <<>>,
               args |-> doc_ids, after |-> doc_ids]
    /\ ForgetPurge
    /\ UNCHANGED <<classes, objs, assigned, lastRead, index, given>>

-----------------------------------------------------------------------------
(* purge() *)

\* start_id of Index.purge's re-query: docs[-1], the RangeDocument itself
PurgeCursor(ds) == [kind |-> "RangeDocument", doc_id |-> ds[Len(ds)].doc_id]

\* The keyword arguments of purge()'s get_range calls
PurgeKwargs(ds, first) ==
    IF first
    THEN [ids_only |-> "True", start_id |-> AbsentId, include_start_object |-> "absent"]
    ELSE [ids_only |-> "True", start_id |-> PurgeCursor(ds), include_start_object |-> "False"]

\* The ids of the page without its first document
PurgeDeleteTail(ds) == [i \in 1..(Len(ds) - 1) |-> ds[i + 1].doc_id]

\* Every id up to the last id of the page
PurgeDeleteUpTo(ds) ==
    SortedIds({x \in Ids : Rank(x) <= Rank(ds[Len(ds)].doc_id)})

\* [d.doc_id for d in docs]
PurgeDeleteIds(ds) == [i \in 1..Len(ds) |-> ds[i].doc_id]

SeqIds(s) == {s[i] : i \in 1..Len(s)}

NoKwargs == [ids_only |-> "absent", start_id |-> AbsentId, include_start_object |-> "absent"]

\* index.purge() is called
PurgeStart ==
    /\ index.made /\ ~Running
    /\ pc' = "FETCHING" /\ docs' = <<>> /\ plog' = <<>> /\ hist' = NoHist
    /\ ret' = [op |-> "purge", exc |-> "None", val |-> <<>>, args |-> <<>>, after |-> <<>>]
    /\ calls' = <<>>
    /\ UNCHANGED <<classes, objs, assigned, lastRead, index, given, remote>>

\* docs = self.get_range(ids_only=True[, start_id=docs[-1], include_start_object=False])
\* and the test of the while loop
PurgeFetch ==
    /\ pc = "FETCHING"
    /\ LET kwargs == PurgeKwargs(docs, plog = <<>>)
       IN  \E resp \in RemoteGetRange(remote, kwargs) :
              LET r   == GetRangeOp(classes, "None", kwargs, resp)
                  ids == [i \in 1..Len(r.val) |-> r.val[i].doc_id]
              IN  /\ plog' = <<[op |-> "get_range", kwargs |-> kwargs,
                                ids |-> ids, exc |-> r.exc]>>
                  /\ IF r.exc # "None"
                     THEN /\ pc' = "FAILED" /\ docs' = docs
                          /\ ret' = [ret EXCEPT !.exc = r.exc]
                     ELSE /\ docs' = r.val
                          /\ pc' = IF r.val = <<>> THEN "DONE" ELSE "DELETING"
                          /\ ret' = ret
                  /\ hist' = [hist EXCEPT !.refetched = @ \cup (hist.late \cap SeqIds(ids))]
    /\ UNCHANGED <<classes, objs, assigned, lastRead, index, given, remote, calls>>

\* self.delete([d.doc_id for d in docs])
PurgeDelete ==
    /\ pc = "DELETING"
    /\ LET cs == DeleteCalls(PurgeDeleteIds(docs))
       IN  /\ remote' = RemoteDelete(remote, cs[1].ids)
           /\ plog' = Append(plog, [op |-> "delete", kwargs |-> NoKwargs,
                                    ids |-> cs[1].ids, exc |-> "None"])
           /\ hist' = [hist EXCEPT !.cursor = cs[1].ids[Len(cs[1].ids)]]
    /\ pc' = "FETCHING"
    /\ UNCHANGED <<classes, objs, assigned, lastRead, index, given, ret, calls, docs>>

\* Another caller puts into the same remote index while purge() runs
ConcurrentPut(documents) ==
    /\ Running
    /\ LET cs == PutCalls(classes, documents)
       IN  \E ids \in PutIds(remote, cs[1].batch) :
              /\ remote' = RemotePut(remote, cs[1].batch, ids)
              /\ LET behind == IF pc = "FETCHING" /\ hist.cursor # "None"
                               THEN {x \in SeqIds(ids) : Rank(x) <= Rank(hist.cursor)}
                               ELSE {}
                 IN  hist' = [mutated   |-> TRUE,
                              cursor    |-> hist.cursor,
                              late      |-> (hist.late \ SeqIds(ids)) \cup behind,
                              refetched |-> hist.refetched \ SeqIds(ids)]
    /\ UNCHANGED <<classes, objs, assigned, lastRead, index, given, ret, calls,
                   pc, docs, plog>>

\* Another caller deletes from the same remote index while purge() runs
ConcurrentDelete(doc_ids) ==
    /\ Running
    /\ remote' = RemoteDelete(remote, doc_ids)
    /\ hist' = [mutated   |-> TRUE,
                cursor    |-> hist.cursor,
                late      |-> hist.late \ SeqIds(doc_ids),
                refetched |-> hist.refetched \ SeqIds(doc_ids)]
    /\ UNCHANGED <<classes, objs, assigned, lastRead, index, given, ret, calls,
                   pc, docs, plog>>

-----------------------------------------------------------------------------
(* Specifications *)

Quiet ==
    /\ objs = <<>> /\ assigned = <<>> /\ lastRead = NoRead
    /\ remote = EmptyDict /\ ret = NoRet /\ calls = <<>>
    /\ pc = "IDLE" /\ docs = <<>> /\ plog = <<>> /\ hist = NoHist

NoIndexYet == index = NoIndex /\ given = NoneName

\* index = Index("a")
IndexA ==
    /\ given = [none |-> FALSE, chars |-> <<"a">>]
    /\ index = IndexInit([none |-> FALSE, chars |-> <<"a">>]).obj

\* The schema registry: the application declares Document classes
InitSchema == classes = BaseClasses /\ Quiet /\ NoIndexYet

NextSchema == \E bases \in BaseLists(classes), dct \in ClassBodies : DefineClass(bases, dct)

SpecSchema == InitSchema /\ [][NextSchema]_vars

\* Document instances of class Thing
InitDoc == classes = AppClasses /\ Quiet /\ NoIndexYet

NextDoc ==
    \/ \E kwargs \in DocKwargs : NewDocument("Thing", kwargs)
    \/ \E h \in 1..MaxObjs, name \in InstanceAttrs, val \in {"None", "'a'", "True", "False"} :
          SetAttr(h, name, val)
    \/ \E h \in 1..MaxObjs, name \in InstanceAttrs : GetAttr(h, name)

SpecDoc == InitDoc /\ [][NextDoc]_vars

\* An Index from its construction on, through every facade call
InitCtor == classes = AppClasses /\ Quiet /\ NoIndexYet

NextCtor ==
    \/ \E name \in Names : NewIndex(name)
    \/ \E c \in {"None", "Thing"}, kwargs \in PlainRanges : GetRange(c, kwargs)
    \/ \E documents \in SinglePuts : Put(documents)
    \/ \E doc_ids \in IdLists : Delete(doc_ids)
    \/ PurgeStart
    \/ PurgeFetch
    \/ PurgeDelete

SpecCtor == InitCtor /\ [][NextCtor]_vars

\* The facade calls get_range, put and delete of one caller
InitIndex == classes = AppClasses /\ Quiet /\ IndexA

NextIndex ==
    \/ \E c \in {"None", "Thing"}, kwargs \in RangeKwargs : GetRange(c, kwargs)
    \/ \E documents \in PutInputs : Put(documents)
    \/ \E doc_ids \in IdLists : Delete(doc_ids)

SpecIndex == InitIndex /\ [][NextIndex]_vars

\* purge() with a second caller mutating the same remote index
InitPurge == classes = AppClasses /\ Quiet /\ IndexA

NextPurge ==
    \/ \E documents \in SinglePuts : Put(documents)
    \/ PurgeStart
    \/ PurgeFetch
    \/ PurgeDelete
    \/ \E documents \in SinglePuts : ConcurrentPut(documents)
    \/ \E doc_ids \in IdLists : ConcurrentDelete(doc_ids)

SpecPurge == InitPurge /\ [][NextPurge]_vars

-----------------------------------------------------------------------------
(* Properties *)

NotIdsOnly == ret.op = "get_range" /\ ret.args.kwargs.ids_only # "True"

\* C1: get_range with ids_only false or absent and no document_class fails
\* with ValueError, and no get_range call reaches the remote index.
C1_NoClassIsRejected ==
    (NotIdsOnly /\ ret.args.document_class = "None")
        => (ret.exc = "ValueError" /\ calls = <<>>)

\* C2: get_range with ids_only false or absent and a document_class does not
\* raise: it makes one remote get_range and returns, in the page's order, one
\* decoded instance of the class per wire document of the page.
C2_ClassDecodesPage ==
    (NotIdsOnly /\ ret.args.document_class # "None")
        => /\ ret.exc = "None"
           /\ Len(calls) = 1 /\ calls[1].op = "get_range"
           /\ \E resp \in RemoteGetRange(remote, ret.args.kwargs) :
                 /\ resp.exc = "None"
                 /\ Len(ret.val) = Len(resp.docs)
                 /\ \A i \in 1..Len(resp.docs) :
                       /\ ret.val[i].cls = ret.args.document_class
                       /\ ret.val[i].dict["doc_id"] = resp.docs[i].doc_id

PurgeEnded == pc \in {"DONE", "FAILED"}

\* C3: without concurrent mutation a purge() completes, and then the remote
\* index holds no document and get_range(ids_only=True) returns an empty list.
C3_PurgeEmptiesIndex ==
    (PurgeEnded /\ ~hist.mutated)
        => /\ pc = "DONE"
           /\ DOMAIN remote = {}
           /\ \A resp \in RemoteGetRange(remote, PurgeKwargs(<<>>, TRUE)) :
                 LET r == GetRangeOp(classes, "None", PurgeKwargs(<<>>, TRUE), resp)
                 IN  r.exc = "None" /\ r.val = <<>>

\* C4: for every instance, each schema field holds to_search_value of the last
\* value assigned to it (None when omitted at construction), a read of it gives
\* to_python of what is held, and other attributes are held and read unchanged.
C4_StoredWireObservedApp ==
    /\ \A h \in 1..Len(objs) :
          LET F == Fields(classes, objs[h].cls)
              d == objs[h].dict
          IN  /\ \A n \in DOMAIN F :
                    /\ n \in DOMAIN d /\ n \in DOMAIN assigned[h]
                    /\ d[n] = ToSearchValue(F[n].kind, assigned[h][n])
              /\ \A n \in (DOMAIN d) \ (DOMAIN F) : d[n] = assigned[h][n]
    /\ lastRead.obj # 0 =>
          LET F == Fields(classes, objs[lastRead.obj].cls)
              d == objs[lastRead.obj].dict
              n == lastRead.name
          IN  n \in DOMAIN d =>
                 lastRead.val = IF n \in DOMAIN F THEN ToPython(F[n].kind, d[n]) ELSE d[n]

C4_Witness ==
    /\ Len(objs) >= 1
    /\ objs[1].dict["flag"] = "'1'" /\ assigned[1]["flag"] = "True"
    /\ objs[1].dict["title"] = "None"
    /\ "note" \in DOMAIN objs[1].dict /\ objs[1].dict["note"] = "'a'"
    /\ lastRead = [obj |-> 1, name |-> "flag", val |-> "True"]

DocBases(B) ==
    {i \in 1..Len(classes[B].bases) : classes[B].bases[i] \in DOMAIN classes}

\* C5: a subclass's schema contains every field name of each Document class it
\* extends; a name the subclass declares maps to the subclass's own Field; a
\* name it does not declare maps to the Field of the earliest-listed base that
\* has it.
C5_SchemaInheritance ==
    \A B \in UserClasses(classes) :
        LET r == classes[B]
        IN  /\ \A A \in DOMAIN classes :
                  IsSubclass(classes, B, A) => (DOMAIN classes[A].meta) \subseteq (DOMAIN r.meta)
            /\ \A n \in r.own : n \in DOMAIN r.meta /\ r.meta[n].owner = B
            /\ \A n \in (DOMAIN r.meta) \ r.own :
                  \E i \in DocBases(B) :
                      /\ n \in DOMAIN classes[r.bases[i]].meta
                      /\ r.meta[n] = classes[r.bases[i]].meta[n]
                      /\ \A j \in DocBases(B) :
                            j < i => n \notin DOMAIN classes[r.bases[j]].meta

C5_Witness ==
    \E B \in UserClasses(classes) :
        LET r == classes[B]
        IN  /\ Len(r.bases) = 2 /\ DocBases(B) = {1, 2}
            /\ \E n \in (DOMAIN r.meta) \ r.own :
                  /\ n \in DOMAIN classes[r.bases[1]].meta
                  /\ n \in DOMAIN classes[r.bases[2]].meta
                  /\ classes[r.bases[1]].meta[n] # classes[r.bases[2]].meta[n]
            /\ \E n \in r.own : n \in DOMAIN classes[r.bases[1]].meta

NameRejected(name) ==
    \/ name.none
    \/ name.chars = <<>>
    \/ \E i \in 1..Len(name.chars) : name.chars[i] = " "
    \/ Len(name.chars) > 0 /\ name.chars[1] = "!"

\* C6: Index(name) fails with an assertion error, leaving no remote handle,
\* exactly when the name is None or empty, holds a space or starts with '!';
\* otherwise it succeeds and the Index keeps the given name ever after.
C6_NameChecked ==
    /\ ret.op = "Index" =>
          /\ (ret.exc = "AssertionError") <=> NameRejected(given)
          /\ ret.exc = "AssertionError" => index = NoIndex
          /\ ret.exc # "AssertionError" => ret.exc = "None" /\ index.made
    /\ index.made =>
          /\ ~NameRejected(given)
          /\ index.name = given.chars /\ index.handle = given.chars

C6_Witness ==
    /\ index.made /\ index.name = <<"a", "!">>
    /\ ret.op = "purge" /\ pc = "FETCHING" /\ hist.cursor # "None"

C8_PurgeStateMachine ==
    /\ pc = "DONE" =>
          /\ Len(plog) = 1 /\ plog[1].op = "get_range"
          /\ plog[1].exc = "None" /\ plog[1].ids = <<>>
    /\ pc = "DELETING" =>
          /\ Len(plog) = 1 /\ plog[1].op = "get_range"
          /\ plog[1].ids # <<>> /\ PurgeDeleteIds(docs) = plog[1].ids
    /\ (pc = "FETCHING" /\ plog # <<>>) =>
          /\ Len(plog) = 2 /\ plog[1].op = "get_range" /\ plog[1].ids # <<>>
          /\ plog[2].op = "delete" /\ plog[2].ids = plog[1].ids
    /\ \A i \in 1..Len(plog) :
          plog[i].op = "delete" => i = 2 /\ plog[1].op = "get_range" /\ plog[2].ids = plog[1].ids

C8_Witness ==
    /\ pc = "FETCHING" /\ Len(plog) = 2
    /\ Len(plog[2].ids) = 2 /\ DOMAIN remote # {}

C10_PutBuildsBatch ==
    ret.op = "put" =>
        LET ds == IF ret.args.isList THEN ret.args.items ELSE <<ret.args.item>>
        IN  /\ Len(calls) = 1 /\ calls[1].op = "put"
            /\ Len(calls[1].batch) = Len(ds)
            /\ \A i \in 1..Len(ds) :
                  LET F == Fields(classes, ds[i].cls)
                      w == calls[1].batch[i]
                  IN  /\ w.doc_id = ds[i].dict["doc_id"]
                      /\ DOMAIN w.fields = DOMAIN F
                      /\ \A n \in DOMAIN F :
                            /\ w.fields[n].name = n
                            /\ w.fields[n].value =
                                  ToSearchValue(F[n].kind, ToPython(F[n].kind, ds[i].dict[n]))
            /\ ret.exc = "None" /\ ret.val = calls[1].result
            /\ ret.after = ret.args

C10_Witness ==
    /\ ret.op = "put" /\ ret.args.isList /\ Len(ret.args.items) = 2
    /\ ret.args.items[1].dict["doc_id"] = "None"
    /\ ret.args.items[2].dict["doc_id"] = "'a'"
    /\ ret.args.items[1].dict["flag"] = "'1'"
    /\ ret.args.items[2].dict["flag"] = "None"
    /\ calls[1].batch[1].fields["flag"].value = "'1'"

=============================================================================
